---- MODULE Spec2Model ----
(***************************************************************************)
(* Model of the weather CLI (src/src/main.rs): the driver (main), the      *)
(* fetcher (get_city_weather), the presenter (display_weather) and the     *)
(* helpers they call.                                                      *)
(*                                                                         *)
(* Strings that the program inspects (the input line, the city) are        *)
(* sequences of one-character strings, so that trim and to_lowercase are   *)
(* computed and not assumed.  A Unix timestamp t (an i64) is the pair      *)
(* [days, secs] with t = days * 86400 + secs and 0 <= secs < 86400, the    *)
(* decomposition chrono itself takes first; this keeps timestamps beyond   *)
(* the model checker's integer width expressible.                          *)
(***************************************************************************)
EXTENDS Integers, Sequences, FiniteSets, TLC

VARIABLES
    pc,         \* where main is: Start, OneShot, AwaitingInput, Querying,
                \* Done, ConfigError, Panicked
    env_key,    \* whether OPEN_WEATHER_MAP_API is set
    opt,        \* Opt: [city |-> <<>> or <<city>>, fahrenheit |-> BOOLEAN]
    input,      \* the line read_line last appended to the buffer
    city,       \* the city of the current query
    resp,       \* the outcome of the HTTP exchange of the last query
    result,     \* what get_city_weather returned for the last query
    emitted,    \* the lines the last step wrote, in order, both streams
    exit_code,  \* <<>> while running, <<code>> once the process has ended
    fetches,    \* calls of get_and_display_weather so far
    prompts,    \* prompts printed so far
    reads       \* read_line calls so far

vars == <<pc, env_key, opt, input, city, resp, result, emitted, exit_code,
          fetches, prompts, reads>>

\* Bound of the model: queries answered in one interactive session.
MaxQueries == 2

---------------------------------------------------------------------------
\* Strings

Upper == <<"A","B","C","D","E","F","G","H","I","J","K","L","M",
           "N","O","P","Q","R","S","T","U","V","W","X","Y","Z">>
Lower == <<"a","b","c","d","e","f","g","h","i","j","k","l","m",
           "n","o","p","q","r","s","t","u","v","w","x","y","z">>

\* char::is_whitespace, on the characters the model uses
Whitespace == {" ", "\t", "\n", "\r"}

LowerChar(c) ==
    IF \E i \in DOMAIN Upper : Upper[i] = c
    THEN Lower[CHOOSE i \in DOMAIN Upper : Upper[i] = c]
    ELSE c

\* str::to_lowercase
to_lowercase(s) == [i \in DOMAIN s |-> LowerChar(s[i])]

RECURSIVE trim_start(_)
trim_start(s) ==
    IF s # <<>> /\ Head(s) \in Whitespace THEN trim_start(Tail(s)) ELSE s

RECURSIVE trim_end(_)
trim_end(s) ==
    IF s # <<>> /\ s[Len(s)] \in Whitespace
    THEN trim_end(SubSeq(s, 1, Len(s) - 1))
    ELSE s

\* str::trim
trim(s) == trim_end(trim_start(s))

\* What read_line can leave in the buffer: a line with its terminator, a
\* last line without one, or nothing (end of input, or a read error, which
\* unwrap_or_default swallows).
StdinLines ==
    { <<"q", "\n">>,
      <<"Q", "\r", "\n">>,
      <<" ", "e", "x", "i", "t", " ", "\n">>,
      <<"E", "X", "I", "T", "\n">>,
      <<"E", "x", "i", "T">>,
      <<>>,
      <<"\n">>,
      <<" ", "\t", "\n">>,
      <<"P", "a", "r", "i", "s", "\n">>,
      <<" ", "R", "i", "o", "\n">>,
      <<"q", "u", "i", "t", "\n">>,
      <<"e", "x", "i", "t", "s", "\n">>,
      <<"q", " ", "q", "\n">>,
      <<"e", "x", " ", "i", "t", "\n">> }

\* Values of --city
CliCities == { <<"P", "a", "r", "i", "s">>, <<"q">>, <<" ", "R", "i", "o">>, <<>> }

\* get_input: the trimmed line
get_input(line) == trim(line)

\* main, line 49: the test that ends the loop
IsExitKeyword(c) ==
    to_lowercase(c) = <<"q">> \/ to_lowercase(c) = <<"e", "x", "i", "t">>

---------------------------------------------------------------------------
\* The response and its decoding

OptionalFields == {"main.sea_level", "main.grnd_level", "wind.gust"}

RequiredFields ==
    { "coord.lon", "coord.lat", "weather", "base",
      "main.temp", "main.feels_like", "main.temp_min", "main.temp_max",
      "main.pressure", "main.humidity",
      "visibility", "wind.speed", "wind.deg", "clouds.all", "dt",
      "sys.country", "sys.sunrise", "sys.sunset",
      "timezone", "id", "name", "cod" }

Fields == RequiredFields \cup OptionalFields

Ts(d, s) == [days |-> d, secs |-> s]

\* A response body: whether it is JSON at all, the fields it holds, and the
\* values of those the presenter computes with.
BaseBody ==
    [ wellformed |-> TRUE,
      present    |-> Fields,
      weather    |-> <<"Rain">>,
      visibility |-> 10000,
      timezone   |-> 3600,
      sunrise    |-> Ts(19675, 21600),
      sunset     |-> Ts(19675, 64800) ]

PresenceBodies ==
    { [BaseBody EXCEPT !.present = Fields \ gone] : gone \in SUBSET OptionalFields }
    \cup { [BaseBody EXCEPT !.present = Fields \ {f}] : f \in RequiredFields }
    \cup { [BaseBody EXCEPT !.present = Fields \ {f, "wind.gust"}] :
             f \in {"weather", "sys.sunrise", "cod"} }
    \cup { [BaseBody EXCEPT !.present = {}],
           [BaseBody EXCEPT !.wellformed = FALSE] }

ConditionLists == { <<>>, <<"Clear">>, <<"Clouds", "Mist">> }

ConditionBodies ==
    { [BaseBody EXCEPT !.weather = w, !.present = Fields \ gone] :
        w \in ConditionLists, gone \in {{}, {"wind.gust"}} }

\* i32 values of the visibility field
Visibilities ==
    { 0, 999, 1000, 10999, 2147483647,
      -1, -999, -1000, -1500, -2147483647 - 1 }

VisibilityBodies == { [BaseBody EXCEPT !.visibility = v] : v \in Visibilities }

\* i64 values of sunrise and sunset
Timestamps ==
    { Ts(0, 0), Ts(0, 3600), Ts(0, 86399), Ts(-1, 86399), Ts(-1, 0),
      Ts(19675, 80000), Ts(2000000000, 0), Ts(-2000000000, 5) }

\* i32 values of the timezone field
Offsets ==
    { 0, -3600, 3600, -1, 1, 19800, -43200, 50400, 86399, -86399,
      86400, -86400, 2147483647, -2147483647 - 1 }

TimeBodies ==
    { [BaseBody EXCEPT !.sunrise = t, !.timezone = o] :
        t \in Timestamps, o \in Offsets }
    \cup { [BaseBody EXCEPT !.sunset = t, !.timezone = o] :
        t \in {Ts(0, 0), Ts(2000000000, 0)}, o \in {-3600, 86400} }

Bodies == PresenceBodies \cup ConditionBodies \cup VisibilityBodies \cup TimeBodies

Statuses == {200, 201, 204, 304, 400, 401, 404, 429, 500, 503}

\* What one HTTP exchange can come to: the client cannot be built or the
\* request fails (connection, timeout), or a response with a status and a body.
Responses ==
    { [kind |-> k, status |-> 0, body |-> BaseBody] : k \in {"builder", "request"} }
    \cup { [kind |-> "http", status |-> s, body |-> b] : s \in {200, 201}, b \in Bodies }
    \cup { [kind |-> "http", status |-> s, body |-> b] :
             s \in Statuses,
             b \in { BaseBody, [BaseBody EXCEPT !.wellformed = FALSE],
                     [BaseBody EXCEPT !.weather = <<>>] } }

NoResp == [kind |-> "none", status |-> 0, body |-> BaseBody]

\* StatusCode::is_success
is_success(status) == 200 <= status /\ status < 300

Err(kind, c, status) ==
    [ok |-> FALSE, kind |-> kind, city |-> c, status |-> status, weather |-> <<>>]

Ok(w) == [ok |-> TRUE, kind |-> "ok", city |-> <<>>, status |-> 0, weather |-> <<w>>]

NoResult == [ok |-> FALSE, kind |-> "none", city |-> <<>>, status |-> 0, weather |-> <<>>]

\* Decode with wind.gust declared f64 instead of Option<f64>
Decode_GustRequired(body) ==
    IF ~body.wellformed \/ ~((RequiredFields \cup {"wind.gust"}) \subseteq body.present)
    THEN <<>>
    ELSE << [ weather    |-> body.weather,
              visibility |-> body.visibility,
              timezone   |-> body.timezone,
              sunrise    |-> body.sunrise,
              sunset     |-> body.sunset,
              gust       |-> TRUE,
              sea_level  |-> "main.sea_level" \in body.present,
              grnd_level |-> "main.grnd_level" \in body.present ] >>

\* res.json::<WeatherData>(): serde's derived Deserialize.  A missing
\* Option field is None; any other missing field is an error.
Decode(body) ==
    IF ~body.wellformed \/ ~(RequiredFields \subseteq body.present)
    THEN <<>>
    ELSE << [ weather    |-> body.weather,
              visibility |-> body.visibility,
              timezone   |-> body.timezone,
              sunrise    |-> body.sunrise,
              sunset     |-> body.sunset,
              gust       |-> "wind.gust" \in body.present,
              sea_level  |-> "main.sea_level" \in body.present,
              grnd_level |-> "main.grnd_level" \in body.present ] >>

\* get_city_weather without the 404 branch: every non-success status is an
\* API error
get_city_weather_No404(c, r) ==
    IF r.kind # "http" THEN Err(r.kind, <<>>, 0)
    ELSE IF ~is_success(r.status)
         THEN Err("api", <<>>, r.status)
         ELSE IF Decode(r.body) = <<>>
              THEN Err("decode", <<>>, 0)
              ELSE Ok(Decode(r.body)[1])

\* get_city_weather
get_city_weather(c, r) ==
    IF r.kind # "http" THEN Err(r.kind, <<>>, 0)
    ELSE IF ~is_success(r.status)
         THEN IF r.status = 404
              THEN Err("not_found", c, 0)
              ELSE Err("api", <<>>, r.status)
         ELSE IF Decode(r.body) = <<>>
              THEN Err("decode", <<>>, 0)
              ELSE Ok(Decode(r.body)[1])

---------------------------------------------------------------------------
\* The presenter

SecsPerDay == 86400

\* The days from 1970-01-01 that chrono's NaiveDate holds
\* (-262143-01-01 to +262142-12-31).
ChronoMinDay == -96465293
ChronoMaxDay == 95026236

\* Utc.timestamp_opt(timestamp, 0): None outside chrono's range
timestamp_opt(ts) == ChronoMinDay <= ts.days /\ ts.days <= ChronoMaxDay

\* FixedOffset::east_opt(secs): None unless -86400 < secs < 86400
east_opt(secs) == -SecsPerDay < secs /\ secs < SecsPerDay

Panic(site) == [ok |-> FALSE, site |-> site, text |-> <<>>]

\* "%H:%M:%S" of a second of the day: two digits each, zero padded
Clock(sod) ==
    LET hh == sod \div 3600
        mm == (sod % 3600) \div 60
        ss == sod % 60
    IN  << hh \div 10, hh % 10, ":", mm \div 10, mm % 10, ":", ss \div 10, ss % 10 >>

\* format_timestamp: both unwraps panic on None, the timestamp's first.  The
\* local second of the day is the UTC one shifted by the offset; % is the
\* non-negative remainder for a positive divisor.
format_timestamp(timestamp, timezone_offset) ==
    IF ~timestamp_opt(timestamp) THEN Panic("timestamp_opt")
    ELSE IF ~east_opt(timezone_offset) THEN Panic("east_opt")
    ELSE [ok |-> TRUE, site |-> "",
          text |-> Clock((timestamp.secs + timezone_offset) % SecsPerDay)]

\* The quotient rounded down (a floor division) instead of truncated
VisibilityKm_Floor(visibility) == visibility \div 1000

\* weather.visibility / 1000 on i32: the quotient truncated toward zero.
\* \div rounds down, so a negative dividend is rounded up instead.
VisibilityKm(visibility) ==
    IF visibility >= 0
    THEN visibility \div 1000
    ELSE (visibility + 999) \div 1000

Line(stream, tag, val) == [stream |-> stream, tag |-> tag, val |-> val]

Unit(use_fahrenheit) == IF use_fahrenheit THEN "F" ELSE "C"

\* display_weather, lines 115-124: the divider and the header
HeadLines ==
    << Line("stdout", "divider", ""), Line("stdout", "header", "") >>

\* BodyLines with the gust line printed whether or not there is a gust
BodyLines_GustAlways(weather, use_fahrenheit) ==
    << Line("stdout", "condition", weather.weather[1]),
       Line("stdout", "temperature", Unit(use_fahrenheit)),
       Line("stdout", "minmax", Unit(use_fahrenheit)),
       Line("stdout", "humidity", ""),
       Line("stdout", "pressure", ""),
       Line("stdout", "wind", ""),
       Line("stdout", "gust", ""),
       Line("stdout", "visibility", VisibilityKm(weather.visibility)),
       Line("stdout", "cloudiness", "") >>

\* display_weather, lines 126-187: from the condition to the cloudiness
BodyLines(weather, use_fahrenheit) ==
    << Line("stdout", "condition", weather.weather[1]),
       Line("stdout", "temperature", Unit(use_fahrenheit)),
       Line("stdout", "minmax", Unit(use_fahrenheit)),
       Line("stdout", "humidity", ""),
       Line("stdout", "pressure", ""),
       Line("stdout", "wind", "") >>
    \o (IF weather.gust THEN << Line("stdout", "gust", "") >> ELSE <<>>)
    \o << Line("stdout", "visibility", VisibilityKm(weather.visibility)),
          Line("stdout", "cloudiness", "") >>

\* display_weather, lines 189-198: sunrise, sunset and the closing divider
TailLines(sunrise, sunset) ==
    << Line("stdout", "sunrise", sunrise.text),
       Line("stdout", "sunset", sunset.text),
       Line("stdout", "divider", "") >>

\* display_weather: the lines printed and whether it panicked on the way.
\* weather.weather[0] panics on an empty list; both timestamps are formatted
\* before either is printed.
display_weather(weather, use_fahrenheit) ==
    LET sunrise == format_timestamp(weather.sunrise, weather.timezone)
        sunset  == format_timestamp(weather.sunset, weather.timezone)
    IN  IF weather.weather = <<>>
        THEN [panicked |-> TRUE, lines |-> HeadLines]
        ELSE IF ~sunrise.ok \/ ~sunset.ok
        THEN [panicked |-> TRUE,
              lines |-> HeadLines \o BodyLines(weather, use_fahrenheit)]
        ELSE [panicked |-> FALSE,
              lines |-> HeadLines \o BodyLines(weather, use_fahrenheit)
                        \o TailLines(sunrise, sunset)]

\* get_and_display_weather: Ok after the display, or the fetcher's error
\* wrapped in "Failed to get weather data for '<city>': <error>"
get_and_display_weather(c, r, use_fahrenheit) ==
    LET got == get_city_weather(c, r)
    IN  IF got.ok
        THEN LET shown == display_weather(got.weather[1], use_fahrenheit)
             IN  [ok |-> TRUE, panicked |-> shown.panicked, lines |-> shown.lines,
                  for_city |-> <<>>, cause |-> got]
        ELSE [ok |-> FALSE, panicked |-> FALSE, lines |-> <<>>,
              for_city |-> c, cause |-> got]

---------------------------------------------------------------------------
\* The driver

PcStates ==
    {"Start", "OneShot", "AwaitingInput", "Querying", "Done", "ConfigError", "Panicked"}

\* The process's exit status where main ends: Ok(()) from main is 0,
\* process::exit(1) is 1, a panic on the main thread is 101.
ExitCodeAt(p) ==
    IF p = "Done" THEN <<0>>
    ELSE IF p = "ConfigError" THEN <<1>>
    ELSE IF p = "Panicked" THEN <<101>>
    ELSE <<>>

\* NextPc with the query's error returned from main (a ? in place of the match)
NextPc_ErrorEnds(at, res) ==
    IF res.panicked THEN "Panicked"
    ELSE IF at = "OneShot" \/ ~res.ok THEN "Done"
    ELSE "AwaitingInput"

\* NextPc with the loop entered after the one-shot query (no else at line 41)
NextPc_OneShotLoops(at, res) ==
    IF res.panicked THEN "Panicked" ELSE "AwaitingInput"

\* main, lines 36-60: where a finished query leaves the driver.  Both match
\* arms fall through; the one-shot branch then returns, the loop goes round.
NextPc(at, res) ==
    IF res.panicked THEN "Panicked"
    ELSE IF at = "OneShot" THEN "Done"
    ELSE "AwaitingInput"

\* main, lines 37-40 and 54-59: what a finished query has written: the report,
\* or the error behind "Error:" on the error stream, and in the loop the blank
\* line after either.
QueryLines(at, res) ==
    IF res.panicked
    THEN res.lines \o << Line("stderr", "panic", "") >>
    ELSE (IF res.ok
          THEN res.lines
          ELSE << Line("stderr", "Error:",
                       [for_city |-> res.for_city, kind |-> res.cause.kind,
                        city |-> res.cause.city, status |-> res.cause.status]) >>)
         \o (IF at = "Querying" THEN << Line("stdout", "blank", "") >> ELSE <<>>)

Init ==
    /\ pc = "Start"
    /\ env_key \in BOOLEAN
    /\ opt \in [city : {<<>>} \cup {<<c>> : c \in CliCities}, fahrenheit : BOOLEAN]
    /\ input = <<>>
    /\ city = <<>>
    /\ resp = NoResp
    /\ result = NoResult
    /\ emitted = <<>>
    /\ exit_code = <<>>
    /\ fetches = 0
    /\ prompts = 0
    /\ reads = 0

\* main, lines 21-45: the API key, the arguments, and either the one-shot
\* query begun or the banner printed
Startup ==
    /\ pc = "Start"
    /\ pc' = IF ~env_key THEN "ConfigError"
             ELSE IF opt.city # <<>> THEN "OneShot"
             ELSE "AwaitingInput"
    /\ emitted' = IF ~env_key THEN << Line("stderr", "config_error", "") >>
                  ELSE IF opt.city # <<>> THEN <<>>
                  ELSE << Line("stdout", "banner", ""), Line("stdout", "hint", "") >>
    /\ city' = IF env_key /\ opt.city # <<>> THEN opt.city[1] ELSE city
    /\ fetches' = IF env_key /\ opt.city # <<>> THEN fetches + 1 ELSE fetches
    /\ exit_code' = ExitCodeAt(pc')
    /\ UNCHANGED <<env_key, opt, input, resp, result, prompts, reads>>

\* main, lines 47-54: one prompt, one line read and trimmed; an exit keyword
\* ends the loop, anything else is the city of a query
ReadLine(line) ==
    /\ pc = "AwaitingInput"
    /\ IsExitKeyword(get_input(line)) \/ fetches < MaxQueries
    /\ input' = line
    /\ city' = get_input(line)
    /\ prompts' = prompts + 1
    /\ reads' = reads + 1
    /\ IF IsExitKeyword(city')
       THEN /\ pc' = "Done"
            /\ emitted' = << Line("stdout", "prompt", ""), Line("stdout", "farewell", "") >>
            /\ fetches' = fetches
       ELSE /\ pc' = "Querying"
            /\ emitted' = << Line("stdout", "prompt", "") >>
            /\ fetches' = fetches + 1
    /\ exit_code' = ExitCodeAt(pc')
    /\ resp' = NoResp
    /\ result' = NoResult
    /\ UNCHANGED <<env_key, opt>>

\* main, lines 37-40 and 54-59: the query's HTTP exchange ends, and
\* get_and_display_weather returns or panics
Respond(r) ==
    /\ pc \in {"OneShot", "Querying"}
    /\ resp' = r
    /\ result' = get_city_weather(city, r)
    /\ LET res == get_and_display_weather(city, r, opt.fahrenheit)
       IN  /\ pc' = NextPc(pc, res)
           /\ emitted' = QueryLines(pc, res)
    /\ exit_code' = ExitCodeAt(pc')
    /\ UNCHANGED <<env_key, opt, input, city, fetches, prompts, reads>>

Next ==
    \/ Startup
    \/ \E line \in StdinLines : ReadLine(line)
    \/ \E r \in Responses : Respond(r)

Spec == Init /\ [][Next]_vars

TypeOK ==
    /\ pc \in PcStates
    /\ env_key \in BOOLEAN
    /\ exit_code \in {<<>>, <<0>>, <<1>>, <<101>>}
    /\ fetches \in 0..MaxQueries
    /\ prompts \in Nat
    /\ reads \in Nat

---------------------------------------------------------------------------
\* Properties

Tags(lines) == [i \in DOMAIN lines |-> lines[i].tag]

IsReportLine(l) == l.tag \notin {"blank", "panic", "Error:", "prompt"}

\* The lines of the report among those the last step wrote
ReportLines == SelectSeq(emitted, IsReportLine)

IsPrefix(s, t) == Len(s) <= Len(t) /\ s = SubSeq(t, 1, Len(s))

\* "q" or "exit" in any mix of cases
ExitWord(c) ==
    \/ Len(c) = 1 /\ c[1] \in {"q", "Q"}
    \/ /\ Len(c) = 4
       /\ c[1] \in {"e", "E"}
       /\ c[2] \in {"x", "X"}
       /\ c[3] \in {"i", "I"}
       /\ c[4] \in {"t", "T"}

\* t is line without its leading and trailing whitespace
TrimmedOf(line, t) ==
    \E i \in 1..(Len(line) + 1) : \E j \in 0..Len(line) :
        /\ t = SubSeq(line, i, j)
        /\ \A k \in 1..(i - 1) : line[k] \in Whitespace
        /\ \A k \in (j + 1)..Len(line) : line[k] \in Whitespace
        /\ t # <<>> => (t[1] \notin Whitespace /\ t[Len(t)] \notin Whitespace)

\* C1: in the interactive loop every line read is trimmed; an exit keyword
\* (any case) prints the farewell and reaches Done with no fetch; any other
\* line, the empty one included, starts exactly one fetch, after which the
\* driver is in AwaitingInput again; Done is reached only by an exit keyword.
C1_InteractiveLoop ==
    [][ /\ pc = "AwaitingInput" =>
             /\ TrimmedOf(input', city')
             /\ ExitWord(city') =>
                  /\ pc' = "Done"
                  /\ fetches' = fetches
                  /\ "farewell" \in {emitted'[i].tag : i \in DOMAIN emitted'}
             /\ ~ExitWord(city') =>
                  /\ pc' = "Querying"
                  /\ fetches' = fetches + 1
        /\ pc = "Querying" => (pc' = "AwaitingInput" /\ fetches' = fetches)
        /\ (pc \in {"AwaitingInput", "Querying"} /\ pc' = "Done") =>
             (pc = "AwaitingInput" /\ ExitWord(city'))
      ]_vars

\* The failures of one query: the request did not complete, the status is
\* not a success, or the body of a success does not decode
FailingResponse(r) ==
    \/ r.kind \in {"builder", "request"}
    \/ /\ r.kind = "http"
       /\ \/ r.status \notin 200..299
          \/ ~r.body.wellformed
          \/ RequiredFields \ r.body.present # {}

\* C2: in the interactive loop a failing query writes one "Error:" line to
\* the error stream, then the blank line to standard output, ends nothing,
\* and leaves the driver in AwaitingInput, where the next step prompts again.
C2_ErrorsCaught ==
    [][ /\ (pc = "Querying" /\ FailingResponse(resp')) =>
             /\ pc' = "AwaitingInput"
             /\ exit_code' = <<>>
             /\ Tags(emitted') = <<"Error:", "blank">>
             /\ emitted'[1].stream = "stderr"
             /\ emitted'[1].val.for_city = city
             /\ emitted'[2].stream = "stdout"
        /\ (pc = "AwaitingInput" /\ ~result.ok /\ fetches > 0) =>
             (prompts' = prompts + 1 /\ emitted'[1].tag = "prompt")
      ]_vars

C2_Witness ==
    /\ pc = "AwaitingInput"
    /\ fetches = 2
    /\ resp.kind = "http" /\ resp.status = 200 /\ ~resp.body.wellformed
    /\ result.kind = "decode"
    /\ Tags(emitted) = <<"Error:", "blank">>

\* C3: a process that has ended with the API key set has exit code 0; only a
\* missing API key gives a non-zero exit code.
C3_ExitCode == exit_code \notin {<<>>, <<0>>} => ~env_key

\* C4: a 404 gives the city-not-found error naming the query's city; any
\* other non-success status gives the API error with that status; the body is
\* decoded, and a report is produced, only for a success status.
C4_StatusClassification ==
    resp.kind = "http" =>
        /\ resp.status = 404 =>
             (~result.ok /\ result.kind = "not_found" /\ result.city = city)
        /\ (resp.status \notin 200..299 /\ resp.status # 404) =>
             (~result.ok /\ result.kind = "api" /\ result.status = resp.status)
        /\ result.kind \in {"ok", "decode"} <=> resp.status \in 200..299
        /\ result.weather # <<>> => resp.status \in 200..299
        /\ ~result.ok =>
             \E i \in DOMAIN emitted :
                 /\ emitted[i].tag = "Error:"
                 /\ emitted[i].val.kind = result.kind
                 /\ emitted[i].val.city = result.city
                 /\ emitted[i].val.status = result.status

C4_Witness ==
    /\ resp.kind = "http" /\ resp.status = 404
    /\ result.kind = "not_found"
    /\ result.city = <<"P", "a", "r", "i", "s">>
    /\ pc = "AwaitingInput"

\* C5: a success response whose body is not JSON or lacks a field other than
\* sea-level pressure, ground-level pressure and wind gust gives a decode
\* error, shows nothing and does not end the process; a body that lacks only
\* some of those three decodes.
C5_Decoding ==
    (resp.kind = "http" /\ resp.status \in 200..299) =>
        LET missing == Fields \ resp.body.present
            optional == {"main.sea_level", "main.grnd_level", "wind.gust"}
        IN  IF resp.body.wellformed /\ missing \subseteq optional
            THEN /\ result.ok
                 /\ result.weather[1].gust <=> "wind.gust" \in resp.body.present
            ELSE /\ result.kind = "decode"
                 /\ pc # "Panicked"
                 /\ ReportLines = <<>>
                 /\ \E i \in DOMAIN emitted : emitted[i].tag = "Error:"

C5_Witness ==
    /\ resp.kind = "http" /\ resp.status = 200
    /\ resp.body.present = RequiredFields
    /\ result.ok
    /\ pc = "AwaitingInput"
    /\ ReportLines # <<>>

\* C6: with a city in the arguments there is one call of
\* get_and_display_weather, for that city, and then the process has ended;
\* no prompt is printed and no line is read.
C6_OneShot ==
    (env_key /\ opt.city # <<>>) =>
        /\ pc \in {"Start", "OneShot", "Done", "Panicked"}
        /\ prompts = 0
        /\ reads = 0
        /\ \A i \in DOMAIN emitted : emitted[i].tag \notin {"prompt", "banner", "hint"}
        /\ pc = "Start" => fetches = 0
        /\ pc # "Start" => (fetches = 1 /\ city = opt.city[1])
        /\ pc \in {"Done", "Panicked"} => (exit_code # <<>> /\ resp.kind # "none")

C6_Witness ==
    /\ env_key /\ opt.city = << <<"P", "a", "r", "i", "s">> >>
    /\ pc = "Done"
    /\ resp.kind = "http" /\ resp.status = 500
    /\ fetches = 1

\* The digits of a clock text as a second of the day
ClockSeconds(text) ==
    (text[1] * 10 + text[2]) * 3600 + (text[4] * 10 + text[5]) * 60
        + text[7] * 10 + text[8]

\* text is the HH:MM:SS of the timestamp shifted by the offset
RendersShifted(timestamp, offset, text) ==
    /\ Len(text) = 8 /\ text[3] = ":" /\ text[6] = ":"
    /\ \A i \in {1, 2, 4, 5, 7, 8} : text[i] \in 0..9
    /\ text[1] * 10 + text[2] < 24
    /\ text[4] * 10 + text[5] < 60
    /\ text[7] * 10 + text[8] < 60
    /\ \E day \in {-1, 0, 1} :
           ClockSeconds(text) = timestamp.secs + offset + day * 86400
    /\ (timestamp = Ts(0, 0) /\ offset = 0) => text = <<0, 0, ":", 0, 0, ":", 0, 0>>
    /\ (timestamp = Ts(0, 3600) /\ offset = -3600) =>
           text = <<0, 0, ":", 0, 0, ":", 0, 0>>

\* C7: for every timestamp and every offset of a decoded report,
\* format_timestamp gives the HH:MM:SS of (timestamp + offset) modulo 86400.
C7_FormatTimestamp ==
    result.ok =>
        LET w == result.weather[1]
            sunrise == format_timestamp(w.sunrise, w.timezone)
            sunset == format_timestamp(w.sunset, w.timezone)
        IN  /\ sunrise.ok
            /\ sunset.ok
            /\ RendersShifted(w.sunrise, w.timezone, sunrise.text)
            /\ RendersShifted(w.sunset, w.timezone, sunset.text)

\* km is v / 1000 truncated toward zero, for an i32 v
TruncatedQuotient(v, km) ==
    /\ km \in -2147483..2147483
    /\ IF v >= 0
       THEN km >= 0 /\ km * 1000 <= v /\ v - km * 1000 < 1000
       ELSE km <= 0 /\ km * 1000 >= v /\ km * 1000 - v < 1000

\* C8: the visibility line shows the meters divided by 1000, truncated toward
\* zero: 10999 gives 10 and 999 gives 0.
C8_VisibilityKm ==
    \A i \in DOMAIN emitted :
        emitted[i].tag = "visibility" =>
            LET v == result.weather[1].visibility
                km == emitted[i].val
            IN  /\ TruncatedQuotient(v, km)
                /\ v = 10999 => km = 10
                /\ v = 999 => km = 0

C8_Witness ==
    /\ result.ok
    /\ result.weather[1].visibility = -1500
    /\ \E i \in DOMAIN emitted : emitted[i].tag = "visibility" /\ emitted[i].val = -1

\* The order of a report's lines
ReportOrder(gust) ==
    << "divider", "header", "condition", "temperature", "minmax", "humidity",
       "pressure", "wind" >>
    \o (IF gust THEN <<"gust">> ELSE <<>>)
    \o << "visibility", "cloudiness", "sunrise", "sunset", "divider" >>

\* C9: a displayed report is, on standard output, the lines of ReportOrder in
\* that order, each once, with the gust line exactly when the report has a
\* gust, whatever the unit flag; a display that panics has written a prefix.
C9_LineOrder ==
    result.ok =>
        LET w == result.weather[1]
        IN  /\ \A i \in DOMAIN ReportLines : ReportLines[i].stream = "stdout"
            /\ pc # "Panicked" => Tags(ReportLines) = ReportOrder(w.gust)
            /\ pc = "Panicked" => IsPrefix(Tags(ReportLines), ReportOrder(w.gust))
            /\ Tags(display_weather(w, TRUE).lines) = Tags(display_weather(w, FALSE).lines)

C9_Witness ==
    /\ result.ok
    /\ pc = "AwaitingInput"
    /\ opt.fahrenheit
    /\ result.weather[1].gust
    /\ Len(ReportLines) = 14
    /\ ReportLines[9].tag = "gust"

\* C10: every decoded report is displayed to its closing divider and the
\* process does not panic.
C10_DecodedIsDisplayed ==
    result.ok =>
        /\ pc # "Panicked"
        /\ Len(ReportLines) > 2
        /\ ReportLines[Len(ReportLines)].tag = "divider"

====
